---- MODULE Spec2Model ----
(***************************************************************************)
(* A state-machine model of the langflow front-end's stateful glue:        *)
(*   - the VoiceAssistant component (audio context, websocket, recorder,   *)
(*     playback queue and its websocket message handler),                  *)
(*   - the REST query hooks useGetRefreshFlows and usePostFolders,         *)
(*   - CollectionPage.handleDeleteFolder,                                  *)
(*   - the NodeStatus update button.                                       *)
(* Every browser task (a click, a websocket event, the continuation of an  *)
(* awaited promise) is one action.                                         *)
(***************************************************************************)
EXTENDS Integers, Sequences, FiniteSets, TLC

(***************************************************************************)
(* Bounds of the model.                                                    *)
(***************************************************************************)
\* initializeAudio invocations (sessions) explored by the lifecycle model
MaxSessions == 2
\* API-key mutations in flight at once
MaxKeyPending == 1
\* length of the displayed message text
MaxText == 1
\* decoded audio buffers waiting in audioQueueRef
MaxQueue == 1
\* entries per vertex in the flow pool
MaxPool == 1
\* messages in the messages store
MaxMessages == 1

Sessions == 1..MaxSessions

\* vertex ids carried by build-progress events
Vertices == {"v1", "v2"}

VARIABLES
  \* ---- VoiceAssistant: React state
  mounted,           \* the component is mounted
  isRecording,       \* useState(false)
  status,            \* useState("")
  message,           \* useState("")
  showApiKeyModal,   \* useState(false)
  \* ---- VoiceAssistant: refs
  audioContextRef,   \* "null" or the state of the referenced AudioContext
  wsRef,             \* 0 (null) or the session whose WebSocket is referenced
  processorRef,      \* 0 (null) or the session whose startRecording made the node
  microphoneRef,     \* same
  analyserRef,       \* same
  portHandler,       \* the processor nodes whose port.onmessage can still be called
  audioQueueRef,     \* sequence of decoded audio buffers
  isPlayingRef,      \* boolean
  \* ---- VoiceAssistant: asynchronous calls in flight
  nSessions,         \* initializeAudio invocations so far
  initPc,            \* per session: where its initializeAudio call stands
  wsState,           \* per session: readyState of the WebSocket it created
  recPc,             \* per session: where its startRecording call stands
  keyPending,        \* in-flight API-key mutations submitted while not recording
  userStopped,       \* history: the last thing the user did was to toggle recording off
  \* ---- playback: the stream processors' side of the port, kept by the
  \* playback model only
  outstanding,       \* per processor node: the chunks posted to it and not yet played
  posted,            \* history: the chunks posted for playback, in order
  arrived,           \* history: number of audio chunks decoded and queued so far
  \* ---- flow store and messages store (zustand)
  isBuilding,
  lockChat,
  flowBuildStatus,   \* vertex id -> BuildStatus
  edges,             \* sequence of edges
  flowPool,          \* vertex id -> number of entries
  messages,          \* number of messages added to the messages store
  \* ---- alert store
  successData,       \* title of the success alert last set ("" when none)
  errorData,         \* title of the error alert last set ("" when none)
  \* ---- useGetRefreshFlows and the stores it writes
  rfPc,              \* where the mutationFn call stands
  rfDbDataFlows,     \* the flows response its then-callback was given
  rfRequests,        \* the GET requests the call has issued, in order
  rfLog,             \* what else the call has done, in order
  rfFlowsBefore,     \* history: the flows store when the call started
  flows,             \* flowsManagerStore.flows
  savedComponents,   \* typesStore.data.saved_components
  componentFields,   \* typesStore.ComponentFields
  \* ---- CollectionPage
  folderToEdit,      \* foldersStore.folderToEdit: 0 (null) or a folder id
  openDeleteFolderModal,
  location,          \* the route navigated to
  delPending,        \* folder_id of each delete mutation in flight
  \* ---- NodeStatus, one instance per node of the canvas
  nodeProps,         \* node -> the isOutdated / isUserEdited props it was given
  updateButtons,     \* the nodes whose NodeStatus renders the AlertTriangle button
  updateCalls,       \* node -> handleUpdateCode invocations
  \* usePostFolders (use-post-folders.ts): one addFoldersFn call
  postPc,            \* "idle", "post", "refresh", "resolved", "rejected"
  postArg,           \* newFolder.data of the call
  postPayload,       \* the payload given to api.post
  postRes,           \* res.data of the POST, "" before it resolved
  postResult,        \* what the mutation resolved with, "" if it has not
  postLog            \* what the call did, in order

reactVars == <<mounted, isRecording, status, message, showApiKeyModal>>
refVars   == <<audioContextRef, wsRef, processorRef, microphoneRef, analyserRef,
               portHandler>>
audioVars == <<audioQueueRef, isPlayingRef>>
callVars  == <<nSessions, initPc, wsState, recPc, keyPending, userStopped>>
flowVars  == <<isBuilding, lockChat, flowBuildStatus, edges, flowPool>>
storeVars == <<flowVars, messages>>
playVars  == <<outstanding, posted, arrived>>
voiceVars == <<reactVars, refVars, audioVars, callVars, storeVars, playVars>>

alertVars == <<successData, errorData>>
refreshVars == <<rfPc, rfDbDataFlows, rfRequests, rfLog, rfFlowsBefore, flows,
                 savedComponents, componentFields>>
folderVars == <<folderToEdit, openDeleteFolderModal, location, delPending>>
nodeVars == <<nodeProps, updateButtons, updateCalls>>
postVars == <<postPc, postArg, postPayload, postRes, postResult, postLog>>
restVars == <<alertVars, refreshVars, folderVars, nodeVars, postVars>>

vars == <<voiceVars, restVars>>

(***************************************************************************)
(* BuildStatus (constants/enums) as used by the handler.                   *)
(***************************************************************************)
BuildStatus == {"TO_BUILD", "BUILDING", "BUILT", "ERROR"}

Edge(src, tgt) == [source |-> src, target |-> tgt, animated |-> FALSE, className |-> ""]

\* the flow on the canvas: v1 -> v2 and v2 -> v1
FlowEdges == <<Edge("v1", "v2"), Edge("v2", "v1")>>

(***************************************************************************)
(* State after the component has been constructed and mounted.             *)
(***************************************************************************)
\* no processor node exists yet
PlayInit ==
  /\ outstanding = [s \in Sessions |-> <<>>]
  /\ posted = <<>>
  /\ arrived = 0

VoiceInit ==
  /\ mounted = TRUE
  /\ isRecording = FALSE
  /\ status = ""
  /\ message = ""
  /\ showApiKeyModal = FALSE
  /\ audioContextRef = "null"
  /\ wsRef = 0
  /\ processorRef = 0
  /\ microphoneRef = 0
  /\ analyserRef = 0
  /\ portHandler = {}
  /\ audioQueueRef = <<>>
  /\ isPlayingRef = FALSE
  /\ nSessions = 0
  /\ initPc = [s \in Sessions |-> "none"]
  /\ wsState = [s \in Sessions |-> "none"]
  /\ recPc = [s \in Sessions |-> "none"]
  /\ keyPending = 0
  /\ userStopped = FALSE
  /\ isBuilding = FALSE
  /\ lockChat = FALSE
  /\ flowBuildStatus = [v \in Vertices |-> "TO_BUILD"]
  /\ edges = FlowEdges
  /\ flowPool = [v \in Vertices |-> 0]
  /\ messages = 0
  /\ PlayInit

(***************************************************************************)
(* Sequential code is modelled on a record of the component's state: each  *)
(* function of the source maps the record before it to the record after    *)
(* it, and an action commits the record its handler ends with.             *)
(***************************************************************************)
Cur ==
  [mounted |-> mounted, isRecording |-> isRecording, status |-> status,
   message |-> message, showApiKeyModal |-> showApiKeyModal,
   audioContextRef |-> audioContextRef, wsRef |-> wsRef,
   processorRef |-> processorRef, microphoneRef |-> microphoneRef,
   analyserRef |-> analyserRef, portHandler |-> portHandler,
   audioQueueRef |-> audioQueueRef,
   isPlayingRef |-> isPlayingRef, nSessions |-> nSessions, initPc |-> initPc,
   wsState |-> wsState, recPc |-> recPc, keyPending |-> keyPending,
   userStopped |-> userStopped,
   isBuilding |-> isBuilding, lockChat |-> lockChat,
   flowBuildStatus |-> flowBuildStatus, edges |-> edges,
   flowPool |-> flowPool, messages |-> messages,
   calls |-> <<>>]   \* the store calls the running handler has made so far

\* the component ends a handler in state st
CommitState(st) ==
  /\ mounted' = st.mounted
  /\ isRecording' = st.isRecording
  /\ status' = st.status
  /\ message' = st.message
  /\ showApiKeyModal' = st.showApiKeyModal
  /\ audioContextRef' = st.audioContextRef
  /\ wsRef' = st.wsRef
  /\ processorRef' = st.processorRef
  /\ microphoneRef' = st.microphoneRef
  /\ analyserRef' = st.analyserRef
  /\ audioQueueRef' = st.audioQueueRef
  /\ isPlayingRef' = st.isPlayingRef
  /\ nSessions' = st.nSessions
  /\ initPc' = st.initPc
  /\ wsState' = st.wsState
  /\ recPc' = st.recPc
  /\ keyPending' = st.keyPending
  /\ userStopped' = st.userStopped
  /\ isBuilding' = st.isBuilding
  /\ lockChat' = st.lockChat
  /\ flowBuildStatus' = st.flowBuildStatus
  /\ edges' = st.edges
  /\ flowPool' = st.flowPool
  /\ messages' = st.messages
  /\ UNCHANGED restVars

\* a processor node that is neither referenced nor playing a chunk posts
\* nothing to its port any more
Listening(st, pending) ==
  {p \in st.portHandler : p = st.processorRef \/ pending[p] # <<>>}

\* a handler that leaves the stream processors alone
Commit(st) ==
  /\ CommitState(st)
  /\ portHandler' = Listening(st, outstanding)
  /\ UNCHANGED playVars

\* the component in state st, as an initial condition
StartAt(st) ==
  /\ mounted = st.mounted
  /\ isRecording = st.isRecording
  /\ status = st.status
  /\ message = st.message
  /\ showApiKeyModal = st.showApiKeyModal
  /\ audioContextRef = st.audioContextRef
  /\ wsRef = st.wsRef
  /\ processorRef = st.processorRef
  /\ microphoneRef = st.microphoneRef
  /\ analyserRef = st.analyserRef
  /\ portHandler = st.portHandler
  /\ audioQueueRef = st.audioQueueRef
  /\ isPlayingRef = st.isPlayingRef
  /\ nSessions = st.nSessions
  /\ initPc = st.initPc
  /\ wsState = st.wsState
  /\ recPc = st.recPc
  /\ keyPending = st.keyPending
  /\ userStopped = st.userStopped
  /\ isBuilding = st.isBuilding
  /\ lockChat = st.lockChat
  /\ flowBuildStatus = st.flowBuildStatus
  /\ edges = st.edges
  /\ flowPool = st.flowPool
  /\ messages = st.messages

\* the caps that keep the explored state space finite
WithinBounds(st) ==
  /\ Len(st.message) <= MaxText
  /\ Len(st.audioQueueRef) <= MaxQueue
  /\ \A v \in Vertices : st.flowPool[v] <= MaxPool
  /\ st.messages <= MaxMessages

(***************************************************************************)
(* React state setters: an update of an unmounted component is dropped.    *)
(***************************************************************************)
setIsRecording(st, v) == IF st.mounted THEN [st EXCEPT !.isRecording = v] ELSE st

setStatus(st, v) == IF st.mounted THEN [st EXCEPT !.status = v] ELSE st

setMessage(st, v) == IF st.mounted THEN [st EXCEPT !.message = v] ELSE st

setShowApiKeyModal(st, v) == IF st.mounted THEN [st EXCEPT !.showApiKeyModal = v] ELSE st

(***************************************************************************)
(* WebSocket.close(): a connecting socket is failed (error, then close),   *)
(* an open one starts the closing handshake, otherwise nothing happens.    *)
(***************************************************************************)
CloseSocket(readyState) ==
  CASE readyState = "CONNECTING" -> "ABORTING"
    [] readyState = "OPEN" -> "CLOSING"
    [] OTHER -> readyState

\* a call on a node or a socket, appended to the handler's call log
Did(st, fn, target) ==
  [st EXCEPT !.calls = Append(@, [fn |-> fn, ids |-> <<target>>, arg |-> ""])]

\* a stopRecording that also closes the AudioContext
stopRecordingClosesContext(st) ==
  LET a == [st EXCEPT !.microphoneRef = 0, !.processorRef = 0, !.analyserRef = 0,
                      !.audioContextRef = "null"]
      b == IF a.wsRef # 0
             THEN [a EXCEPT !.wsState[a.wsRef] = CloseSocket(@), !.wsRef = 0]
             ELSE a
  IN  setIsRecording(b, FALSE)

\* stopRecording, AssemblyAI.jsx 164-182
stopRecording(st) ==
  LET m == IF st.microphoneRef # 0
             THEN [Did(st, "disconnect", "microphone") EXCEPT !.microphoneRef = 0]
             ELSE st
      p == IF m.processorRef # 0
             THEN [Did(m, "disconnect", "processor") EXCEPT !.processorRef = 0]
             ELSE m
      a == IF p.analyserRef # 0
             THEN [Did(p, "disconnect", "analyser") EXCEPT !.analyserRef = 0]
             ELSE p
      b == IF a.wsRef # 0
             THEN [Did(a, "close", "websocket")
                     EXCEPT !.wsState[a.wsRef] = CloseSocket(@), !.wsRef = 0]
             ELSE a
  IN  setIsRecording(b, FALSE)

\* startConversation, AssemblyAI.jsx 311-337; s is the session of the caller
startConversation(st, s, wsThrows) ==
  IF wsThrows
    THEN setStatus(st, "Connection failed")
    ELSE [st EXCEPT !.wsRef = s, !.wsState[s] = "CONNECTING"]

\* what `new AudioContext` may give
CtxOutcomes == {"suspended", "running", "throws"}

\* an initializeAudio that makes a new AudioContext on every call
initializeAudioAlwaysCreates(st, s, created, wsThrows) ==
  LET a == [st EXCEPT !.nSessions = s]
  IN  IF created = "throws"
        THEN setStatus([a EXCEPT !.initPc[s] = "done"],
                       "Error: Failed to initialize audio")
        ELSE LET b == [a EXCEPT !.audioContextRef = created]
             IN  IF b.audioContextRef = "suspended"
                   THEN [b EXCEPT !.initPc[s] = "resume"]
                   ELSE startConversation([b EXCEPT !.initPc[s] = "done"], s, wsThrows)

\* initializeAudio up to its first await (or its end), AssemblyAI.jsx 73-98
initializeAudio(st, s, created, wsThrows) ==
  LET st0 == [st EXCEPT !.nSessions = s]
      a == IF st0.audioContextRef = "closed"
             THEN [st0 EXCEPT !.audioContextRef = "null"]
             ELSE st0
  IN  IF a.audioContextRef = "null" /\ created = "throws"
        THEN setStatus([a EXCEPT !.initPc[s] = "done"],
                       "Error: Failed to initialize audio")
        ELSE LET b == IF a.audioContextRef = "null"
                        THEN [a EXCEPT !.audioContextRef = created]
                        ELSE a
             IN  IF b.audioContextRef = "suspended"
                   THEN [b EXCEPT !.initPc[s] = "resume"]
                   ELSE startConversation([b EXCEPT !.initPc[s] = "done"], s, wsThrows)

\* initializeAudio after `await audioContextRef.current.resume()` resolved
initializeAudioResumed(st, s, wsThrows) ==
  LET a == [st EXCEPT !.audioContextRef = IF @ = "suspended" THEN "running" ELSE @,
                      !.initPc[s] = "done"]
  IN  startConversation(a, s, wsThrows)

\* initializeAudio's catch
initializeAudioFailed(st, s) ==
  setStatus([st EXCEPT !.initPc[s] = "done"], "Error: Failed to initialize audio")

\* startRecording after getUserMedia resolved, AssemblyAI.jsx 103-114
startRecordingGotStream(st, s) ==
  IF st.audioContextRef = "null"
    THEN [st EXCEPT !.recPc[s] = "done"]
    ELSE [st EXCEPT !.microphoneRef = s, !.analyserRef = s, !.recPc[s] = "mod"]

\* startRecording's outer catch, AssemblyAI.jsx 158-161
startRecordingFailed(st, s, errMessage) ==
  setStatus([st EXCEPT !.recPc[s] = "done"], "Error: " \o errMessage)

\* startRecording after audioWorklet.addModule resolved, AssemblyAI.jsx 115-151
startRecordingModuleLoaded(st, s) ==
  IF st.audioContextRef = "null"
    THEN startRecordingFailed(st, s, "TypeError")
    ELSE LET a == [st EXCEPT !.processorRef = s]
         IN  IF a.analyserRef = 0
               THEN startRecordingFailed(a, s, "TypeError")
               ELSE setIsRecording([a EXCEPT !.recPc[s] = "done",
                                             !.portHandler = @ \cup {s}], TRUE)

(***************************************************************************)
(* The flow store's and the messages store's functions the handler calls.  *)
(***************************************************************************)
InList(x, list) == \E i \in 1..Len(list) : list[i] = x

\* every call of a store function is appended to the handler's call log
Called(st, fn, ids, arg) ==
  [st EXCEPT !.calls = Append(@, [fn |-> fn, ids |-> ids, arg |-> arg])]

setIsBuilding(st, v) ==
  [Called(st, "setIsBuilding", <<>>, IF v THEN "true" ELSE "false")
     EXCEPT !.isBuilding = v]

setLockChat(st, v) ==
  [Called(st, "setLockChat", <<>>, IF v THEN "true" ELSE "false")
     EXCEPT !.lockChat = v]

updateBuildStatus(st, nodeIdList, buildStatus) ==
  [Called(st, "updateBuildStatus", nodeIdList, buildStatus)
     EXCEPT !.flowBuildStatus =
       [v \in Vertices |-> IF InList(v, nodeIdList) THEN buildStatus ELSE @[v]]]

setEdges(st, newEdges) ==
  [Called(st, "setEdges", <<>>, "") EXCEPT !.edges = newEdges]

addDataToFlowPool(st, id) ==
  [Called(st, "addDataToFlowPool", <<id>>, "") EXCEPT !.flowPool[id] = @ + 1]

updateEdgesRunningByNodes(st, ids, running) ==
  [Called(st, "updateEdgesRunningByNodes", ids, IF running THEN "true" ELSE "false")
     EXCEPT !.edges =
       [i \in 1..Len(@) |->
          IF InList(@[i].source, ids)
            THEN [@[i] EXCEPT !.animated = running,
                              !.className = IF running THEN "running" ELSE ""]
            ELSE @[i]]]

revertBuiltStatusFromBuilding(st) ==
  [Called(st, "revertBuiltStatusFromBuilding", <<>>, "")
     EXCEPT !.flowBuildStatus =
       [v \in Vertices |-> IF @[v] = "BUILDING" THEN "BUILT" ELSE @[v]]]

clearEdgesRunningByNodes(st) ==
  [Called(st, "clearEdgesRunningByNodes", <<>>, "")
     EXCEPT !.edges =
       [i \in 1..Len(@) |-> [@[i] EXCEPT !.animated = FALSE, !.className = ""]]]

addMessage(st) == [Called(st, "addMessage", <<>>, "") EXCEPT !.messages = @ + 1]

(***************************************************************************)
(* Websocket messages: JSON objects, here records with every field the     *)
(* handler reads (a field the message lacks is "" / FALSE).                *)
(***************************************************************************)
NoMsg ==
  [type |-> "", partType |-> "", text |-> "", delta |-> "", event |-> "",
   vertex_id |-> "", hasData |-> FALSE, code |-> "", error |-> ""]

ContentMsgs ==
  {[NoMsg EXCEPT !.type = "response.content_part.added", !.partType = p, !.text = t] :
     p \in {"text", "audio"}, t \in {"", "a"}}

AudioMsgs ==
  {[NoMsg EXCEPT !.type = "response.audio.delta", !.delta = d] :
     d \in {"", "c1", "!"}}

BuildEvents == {"start", "start_vertex", "end_vertex", "error", "end", "add_message"}

BuildMsg(e, v, d) ==
  [NoMsg EXCEPT !.type = "flow.build.progress", !.event = e, !.vertex_id = v,
                !.hasData = d]

BuildMsgs ==
  {BuildMsg(e, "", d) : e \in {"start", "end", "add_message", "log"}, d \in {TRUE}}
    \cup {BuildMsg(e, v, d) : e \in {"start_vertex", "error"}, v \in Vertices, d \in {TRUE}}
    \cup {BuildMsg("end_vertex", v, d) : v \in Vertices, d \in BOOLEAN}

ErrorMsgs ==
  {[NoMsg EXCEPT !.type = "error", !.code = c, !.error = "e"] :
     c \in {"api_key_missing", "rate_limit"}}

OtherMsgs == {[NoMsg EXCEPT !.type = "session.created"]}

Msgs == ContentMsgs \cup AudioMsgs \cup BuildMsgs \cup ErrorMsgs \cup OtherMsgs

\* audio chunks the playback model receives
MaxChunks == 3

\* the delta that carries chunk k
ChunkDelta(k) == "c" \o ToString(k)

\* base64ToFloat32Array and createBuffer: the buffer a delta decodes to, 0 when
\* decoding throws
DecodeAudio(delta) ==
  IF \E k \in 1..MaxChunks : delta = ChunkDelta(k)
    THEN CHOOSE k \in 1..MaxChunks : delta = ChunkDelta(k)
    ELSE 0

\* a playNextAudioChunk that takes the newest buffer of the queue
playNextAudioChunkNewest(st, postFails) ==
  IF Len(st.audioQueueRef) = 0
    THEN [st EXCEPT !.isPlayingRef = FALSE]
    ELSE LET n == Len(st.audioQueueRef)
             a == [st EXCEPT !.isPlayingRef = TRUE,
                             !.audioQueueRef = SubSeq(@, 1, n - 1)]
         IN  IF a.processorRef = 0
               THEN a
               ELSE IF postFails
                      THEN [a EXCEPT !.isPlayingRef = FALSE]
                      ELSE Called(a, "postMessage", <<ToString(a.processorRef)>>,
                                  ToString(st.audioQueueRef[n]))

\* playNextAudioChunk, AssemblyAI.jsx 184-204
playNextAudioChunk(st, postFails) ==
  IF Len(st.audioQueueRef) = 0
    THEN [st EXCEPT !.isPlayingRef = FALSE]
    ELSE LET a == [st EXCEPT !.isPlayingRef = TRUE, !.audioQueueRef = Tail(@)]
             audioBuffer == Head(st.audioQueueRef)
         IN  IF a.processorRef = 0
               THEN a
               ELSE IF postFails
                      THEN [a EXCEPT !.isPlayingRef = FALSE]
                      ELSE Called(a, "postMessage", <<ToString(a.processorRef)>>,
                                  ToString(audioBuffer))

\* case "response.content_part.added", AssemblyAI.jsx 211-215
contentPartAdded(st, data) ==
  IF data.partType = "text" /\ data.text # ""
    THEN setMessage(st, st.message \o data.text)
    ELSE st

\* case "response.audio.delta", AssemblyAI.jsx 217-236
audioDelta(st, data, postFails) ==
  IF data.delta # "" /\ st.audioContextRef # "null"
    THEN IF DecodeAudio(data.delta) = 0
           THEN st
           ELSE LET a == [st EXCEPT !.audioQueueRef = Append(@, DecodeAudio(data.delta))]
                IN  IF ~a.isPlayingRef THEN playNextAudioChunk(a, postFails) ELSE a
    ELSE st

\* a handler that reports every finished vertex as failed
VertexEventStatusSwapped(event) ==
  CASE event = "start_vertex" -> "BUILDING"
    [] event = "end_vertex" -> "ERROR"
    [] event = "error" -> "ERROR"

\* the status each vertex event reports, AssemblyAI.jsx 247-286
VertexEventStatus(event) ==
  CASE event = "start_vertex" -> "BUILDING"
    [] event = "end_vertex" -> "BUILT"
    [] event = "error" -> "ERROR"

\* the vertex ids an event's updateBuildStatus call is given
VertexEventIds(buildData) == <<buildData.vertex_id>>

\* an edges.map that looks at the edge's source instead of its target handle
markRunningBySource(es, vertex_id) ==
  [i \in 1..Len(es) |->
     IF vertex_id = es[i].source
       THEN [es[i] EXCEPT !.animated = TRUE, !.className = "running"]
       ELSE es[i]]

\* edges.map of case "start_vertex", AssemblyAI.jsx 252-260
markRunning(es, vertex_id) ==
  [i \in 1..Len(es) |->
     IF vertex_id = es[i].target
       THEN [es[i] EXCEPT !.animated = TRUE, !.className = "running"]
       ELSE es[i]]

\* case "start", AssemblyAI.jsx 242-245
buildStart(st) == setLockChat(setIsBuilding(st, TRUE), TRUE)

\* an "end" case that forgets to unlock the chat
buildEndKeepsLock(st) ==
  clearEdgesRunningByNodes(revertBuiltStatusFromBuilding(setIsBuilding(st, FALSE)))

\* case "end", AssemblyAI.jsx 288-293
buildEnd(st) ==
  clearEdgesRunningByNodes(
    revertBuiltStatusFromBuilding(setLockChat(setIsBuilding(st, FALSE), FALSE)))

\* case "flow.build.progress", AssemblyAI.jsx 238-299
buildProgress(st, buildData) ==
  CASE buildData.event = "start" -> buildStart(st)
    [] buildData.event = "start_vertex" ->
         LET a == updateBuildStatus(st, VertexEventIds(buildData),
                                    VertexEventStatus(buildData.event))
         IN  setEdges(a, markRunning(a.edges, buildData.vertex_id))
    [] buildData.event = "end_vertex" ->
         LET a == updateBuildStatus(st, VertexEventIds(buildData),
                                    VertexEventStatus(buildData.event))
         IN  IF ~buildData.hasData
               THEN a    \* buildData.data.build_data throws
               ELSE updateEdgesRunningByNodes(
                      addDataToFlowPool(a, buildData.vertex_id),
                      <<buildData.vertex_id>>, FALSE)
    [] buildData.event = "error" ->
         updateEdgesRunningByNodes(
           updateBuildStatus(st, VertexEventIds(buildData),
                             VertexEventStatus(buildData.event)),
           <<buildData.vertex_id>>, FALSE)
    [] buildData.event = "end" -> buildEnd(st)
    [] buildData.event = "add_message" -> addMessage(st)
    [] OTHER -> st

\* an "error" case that opens the API-key modal whatever the code
serverErrorAlwaysAsksKey(st, data) ==
  setStatus(setShowApiKeyModal(st, TRUE), "Error: " \o data.error)

\* case "error", AssemblyAI.jsx 301-307
serverError(st, data) ==
  LET a == IF data.code = "api_key_missing" THEN setShowApiKeyModal(st, TRUE) ELSE st
  IN  setStatus(a, "Error: " \o data.error)

\* a handler whose switch reports a message it does not know
handleWebSocketMessageDefault(st, data, postFails) ==
  CASE data.type = "response.content_part.added" -> contentPartAdded(st, data)
    [] data.type = "response.audio.delta" -> audioDelta(st, data, postFails)
    [] data.type = "flow.build.progress" -> buildProgress(st, data)
    [] data.type = "error" -> serverError(st, data)
    [] OTHER -> setStatus(st, "Error: unknown message")

\* handleWebSocketMessage, AssemblyAI.jsx 206-309
handleWebSocketMessage(st, data, postFails) ==
  CASE data.type = "response.content_part.added" -> contentPartAdded(st, data)
    [] data.type = "response.audio.delta" -> audioDelta(st, data, postFails)
    [] data.type = "flow.build.progress" -> buildProgress(st, data)
    [] data.type = "error" -> serverError(st, data)
    [] OTHER -> st

\* processorRef.current.port.onmessage for an "input" event that carries
\* audio, AssemblyAI.jsx 123-141: the send is logged with the readyState of
\* the socket it is called on
processorInput(st) ==
  IF st.wsRef # 0
    THEN Called(st, "send", <<ToString(st.wsRef)>>, st.wsState[st.wsRef])
    ELSE st

\* processorRef.current.port.onmessage for a "done" event, AssemblyAI.jsx 142-148
processorDone(st, postFails) ==
  IF Len(st.audioQueueRef) > 0
    THEN playNextAudioChunk(st, postFails)
    ELSE [st EXCEPT !.isPlayingRef = FALSE]

(***************************************************************************)
(* Actions of the VoiceAssistant component.                                *)
(***************************************************************************)
\* A failed connection fires error and then close in one browser task: nothing
\* else runs between the two handlers.
Idle == \A s \in Sessions : wsState[s] # "FAILING"

\* toggleRecording (the button's onClick), AssemblyAI.jsx 339-346
ToggleRecording(bound) ==
  /\ mounted
  /\ Idle
  /\ IF ~isRecording
       THEN /\ nSessions < bound
            /\ \E created \in CtxOutcomes, wsThrows \in BOOLEAN :
                 Commit(setIsRecording(
                          initializeAudio([Cur EXCEPT !.userStopped = FALSE],
                                          nSessions + 1, created, wsThrows),
                          ~isRecording))
       ELSE Commit(setIsRecording(stopRecording([Cur EXCEPT !.userStopped = TRUE]),
                                  ~isRecording))

\* `await audioContextRef.current.resume()` resolves, AssemblyAI.jsx 90-93
ResumeResolved(s) ==
  /\ initPc[s] = "resume"
  /\ Idle
  /\ \E wsThrows \in BOOLEAN : Commit(initializeAudioResumed(Cur, s, wsThrows))

\* `await audioContextRef.current.resume()` rejects, AssemblyAI.jsx 94-97
ResumeRejected(s) ==
  /\ initPc[s] = "resume"
  /\ audioContextRef # "running"
  /\ Idle
  /\ Commit(initializeAudioFailed(Cur, s))

\* wsRef.current.onopen, AssemblyAI.jsx 317-320, and startRecording up to
\* its first await, AssemblyAI.jsx 100-102
WsOpen(s) ==
  /\ wsState[s] = "CONNECTING"
  /\ Idle
  /\ Commit([Cur EXCEPT !.wsState[s] = "OPEN", !.recPc[s] = "gum"])

\* getUserMedia resolves
GumResolved(s) ==
  /\ recPc[s] = "gum"
  /\ Idle
  /\ Commit(startRecordingGotStream(Cur, s))

\* getUserMedia rejects
GumRejected(s) ==
  /\ recPc[s] = "gum"
  /\ Idle
  /\ Commit(startRecordingFailed(Cur, s, "Permission denied"))

\* audioWorklet.addModule resolves
AddModuleResolved(s) ==
  /\ recPc[s] = "mod"
  /\ Idle
  /\ Commit(startRecordingModuleLoaded(Cur, s))

\* audioWorklet.addModule rejects
AddModuleRejected(s) ==
  /\ recPc[s] = "mod"
  /\ Idle
  /\ Commit(startRecordingFailed(Cur, s, "Unable to load a worklet's module."))

\* wsRef.current.onmessage, AssemblyAI.jsx 322
WsMessage(s, data) ==
  /\ wsState[s] = "OPEN"
  /\ Idle
  /\ \E postFails \in (IF data.type = "response.audio.delta" THEN BOOLEAN ELSE {FALSE}) :
       LET st == handleWebSocketMessage(Cur, data, postFails)
       IN  WithinBounds(st) /\ Commit(st)

\* the stream processor the component references hands over microphone input
ProcessorInput(p) ==
  /\ processorRef = p
  /\ p \in portHandler
  /\ Idle
  /\ Commit(processorInput(Cur))

\* the onerror handler, AssemblyAI.jsx 329-332
onerror(st) == setStatus(st, "Connection error")

\* an onclose handler that reconnects
oncloseReconnects(st) ==
  LET a == stopRecording(st)
      s == a.nSessions + 1
  IN  IF s \in Sessions
        THEN [a EXCEPT !.nSessions = s, !.initPc[s] = "done", !.wsRef = s,
                       !.wsState[s] = "CONNECTING"]
        ELSE a

\* the onclose handler, AssemblyAI.jsx 324-327
onclose(st) == stopRecording(st)

\* the connection fails: the error event
WsError(s) ==
  /\ wsState[s] \in {"CONNECTING", "OPEN", "ABORTING"}
  /\ Idle
  /\ Commit(onerror([Cur EXCEPT !.wsState[s] = "FAILING"]))

\* the connection is closed (by the server, after close(), after a failure):
\* the close event
WsClose(s) ==
  /\ wsState[s] \in {"OPEN", "CLOSING", "FAILING"}
  /\ Idle \/ wsState[s] = "FAILING"
  /\ Commit(onclose([Cur EXCEPT !.wsState[s] = "CLOSED"]))

\* handleApiKeySubmit, AssemblyAI.jsx 348-360.  The onSuccess it hands over
\* closes over isRecording: submitted while recording it has nothing to do, so
\* only the mutations submitted while not recording are kept
ApiKeySubmit ==
  /\ mounted
  /\ showApiKeyModal
  /\ Idle
  /\ IF isRecording
       THEN Commit([Cur EXCEPT !.userStopped = FALSE])
       ELSE /\ keyPending < MaxKeyPending
            /\ Commit([Cur EXCEPT !.keyPending = @ + 1, !.userStopped = FALSE])

\* the mutation's onSuccess, with the isRecording = false it closed over
ApiKeySuccess(bound) ==
  /\ mounted
  /\ Idle
  /\ keyPending > 0
  /\ nSessions < bound
  /\ \E created \in CtxOutcomes, wsThrows \in BOOLEAN :
       Commit(initializeAudio([Cur EXCEPT !.keyPending = @ - 1],
                              nSessions + 1, created, wsThrows))

\* the mutation fails: no onError is given
ApiKeyFailure ==
  /\ Idle
  /\ keyPending > 0
  /\ Commit([Cur EXCEPT !.keyPending = @ - 1])

\* APIKeyModal closes itself through setOpen, AssemblyAI.jsx 386
CloseApiKeyModal ==
  /\ mounted
  /\ showApiKeyModal
  /\ Idle
  /\ Commit(setShowApiKeyModal(Cur, FALSE))

\* the useEffect cleanup, AssemblyAI.jsx 363-371
Unmount ==
  /\ mounted
  /\ Idle
  /\ Commit([stopRecording(Cur) EXCEPT !.audioContextRef = "null", !.mounted = FALSE])

\* the messages the lifecycle model delivers
LifecycleMsgs == ErrorMsgs

VoiceNext ==
  \/ ToggleRecording(MaxSessions)
  \/ \E s \in Sessions : ResumeResolved(s)
  \/ \E s \in Sessions : ResumeRejected(s)
  \/ \E s \in Sessions : WsOpen(s)
  \/ \E s \in Sessions : GumResolved(s)
  \/ \E s \in Sessions : GumRejected(s)
  \/ \E s \in Sessions : AddModuleResolved(s)
  \/ \E s \in Sessions : AddModuleRejected(s)
  \/ \E s \in Sessions, data \in LifecycleMsgs : WsMessage(s, data)
  \/ \E p \in Sessions : ProcessorInput(p)
  \/ \E s \in Sessions : WsError(s)
  \/ \E s \in Sessions : WsClose(s)
  \/ ApiKeySubmit
  \/ ApiKeySuccess(MaxSessions)
  \/ ApiKeyFailure
  \/ CloseApiKeyModal
  \/ Unmount

(***************************************************************************)
(* useGetRefreshFlows (controllers/API/queries/flows).                     *)
(***************************************************************************)
\* flows a response carries
MaxFlows == 2

FlowLists == {[i \in 1..n |-> i] : n \in 0..MaxFlows}

\* GetFlowsParams
NoParams ==
  [components_only |-> FALSE, get_all |-> FALSE, header_flows |-> FALSE,
   folder_id |-> "", remove_example_flows |-> FALSE, page |-> 0, size |-> 0]

ParamsGiven ==
  {NoParams,
   [NoParams EXCEPT !.get_all = TRUE, !.header_flows = TRUE],
   [NoParams EXCEPT !.folder_id = "f1", !.remove_example_flows = TRUE,
                    !.page = 1, !.size = 2]}

\* addQueryParams: the query string as its key / value pairs, in order
addQueryParams(params) ==
  (IF params.components_only THEN <<<<"components_only", "true">>>> ELSE <<>>)
    \o (IF params.get_all THEN <<<<"get_all", "true">>>> ELSE <<>>)
    \o (IF params.header_flows THEN <<<<"header_flows", "true">>>> ELSE <<>>)
    \o (IF params.folder_id # "" THEN <<<<"folder_id", params.folder_id>>>> ELSE <<>>)
    \o (IF params.remove_example_flows
          THEN <<<<"remove_example_flows", "true">>>> ELSE <<>>)
    \o (IF params.page # 0 THEN <<<<"page", ToString(params.page)>>>> ELSE <<>>)
    \o (IF params.size # 0 THEN <<<<"size", ToString(params.size)>>>> ELSE <<>>)

\* what a GET of the flows endpoint may resolve to: an array of flows, a page
\* of flows, or nothing
Responses ==
  {[kind |-> "array", array |-> l, items |-> <<>>] : l \in FlowLists}
    \cup {[kind |-> "paginated", array |-> <<>>, items |-> l] : l \in FlowLists}
    \cup {[kind |-> "null", array |-> <<>>, items |-> <<>>]}

NoResponse == [kind |-> "null", array |-> <<>>, items |-> <<>>]

Truthy(resp) == resp.kind # "null"

\* a selection that always reads the items field
FlowsOfItemsOnly(dbDataFlows) == dbDataFlows.items

\* Array.isArray(dbDataFlows) ? dbDataFlows : dbDataFlows.items, part_003 328-330
FlowsOf(dbDataFlows) ==
  IF dbDataFlows.kind = "array" THEN dbDataFlows.array ELSE dbDataFlows.items

\* the request the then-callback issues, part_003 311-314
ComponentsParams == [NoParams EXCEPT !.components_only = TRUE, !.get_all = TRUE]

ErrorTitleFlows == "Could not load flows from database"

RefreshInit ==
  /\ rfPc = "idle"
  /\ rfDbDataFlows = NoResponse
  /\ rfRequests = <<>>
  /\ rfLog = <<>>
  /\ rfFlowsBefore = <<>>
  /\ flows = <<>>
  /\ savedComponents = <<>>
  /\ componentFields = <<>>

\* mutationFn is called: the flows request is issued, part_003 306-310
RefreshStart(params) ==
  /\ rfPc \in {"idle", "done", "failed"}
  /\ rfPc' = "flows"
  /\ rfDbDataFlows' = NoResponse
  /\ rfRequests' = <<addQueryParams(params)>>
  /\ rfLog' = <<>>
  /\ rfFlowsBefore' = flows
  /\ UNCHANGED <<flows, savedComponents, componentFields>>
  /\ UNCHANGED <<voiceVars, postVars, alertVars, folderVars, nodeVars>>

RefreshCatchSwallows(why) ==
  /\ rfPc' = "done"
  /\ rfLog' = rfLog \o <<why, "return">>
  /\ UNCHANGED <<rfDbDataFlows, rfRequests, rfFlowsBefore, flows, savedComponents,
                 componentFields, alertVars>>
  /\ UNCHANGED <<voiceVars, postVars, folderVars, nodeVars>>

\* the catch of mutationFn, part_003 338-343
RefreshCatch(why) ==
  /\ rfPc' = "failed"
  /\ rfLog' = rfLog \o <<why, "setErrorData", "throw">>
  /\ errorData' = ErrorTitleFlows
  /\ UNCHANGED <<rfDbDataFlows, rfRequests, rfFlowsBefore, flows, savedComponents,
                 componentFields, successData>>
  /\ UNCHANGED <<voiceVars, postVars, folderVars, nodeVars>>

\* the flows request resolves: the then-callback issues the saved-components
\* request, part_003 310-314
FlowsResolved(resp) ==
  /\ rfPc = "flows"
  /\ rfPc' = "components"
  /\ rfDbDataFlows' = resp
  /\ rfRequests' = Append(rfRequests, addQueryParams(ComponentsParams))
  /\ UNCHANGED <<rfLog, rfFlowsBefore, flows, savedComponents, componentFields>>
  /\ UNCHANGED <<voiceVars, postVars, alertVars, folderVars, nodeVars>>

\* the flows request rejects
FlowsRejected ==
  /\ rfPc = "flows"
  /\ RefreshCatch("flows request failed")

\* the rest of the then-callback once the saved-components request has
\* resolved, and the return of mutationFn, part_003 316-337
RefreshFinish(dbDataComponents) ==
  /\ rfPc' = "done"
  /\ IF Truthy(dbDataComponents)
       THEN /\ savedComponents' = FlowsOf(dbDataComponents)
            /\ componentFields' = FlowsOf(dbDataComponents)
       ELSE UNCHANGED <<savedComponents, componentFields>>
  /\ IF Truthy(rfDbDataFlows)
       THEN flows' = FlowsOf(rfDbDataFlows)
       ELSE UNCHANGED flows
  /\ rfLog' = rfLog
               \o (IF Truthy(dbDataComponents) THEN <<"typesStore.setState">> ELSE <<>>)
               \o (IF Truthy(rfDbDataFlows) THEN <<"setFlows">> ELSE <<>>)
               \o <<"return">>
  /\ UNCHANGED <<rfDbDataFlows, rfRequests, rfFlowsBefore>>
  /\ UNCHANGED <<voiceVars, postVars, alertVars, folderVars, nodeVars>>

\* the saved-components request resolves; processFlows or
\* extractFieldsFromComponenents may throw on what it carries
ComponentsResolved(dbDataComponents, processingThrows) ==
  /\ rfPc = "components"
  /\ IF processingThrows /\ Truthy(dbDataComponents)
       THEN RefreshCatch("processing failed")
       ELSE RefreshFinish(dbDataComponents)

\* the saved-components request rejects
ComponentsRejected ==
  /\ rfPc = "components"
  /\ RefreshCatch("components request failed")

RefreshNext ==
  \/ \E params \in ParamsGiven : RefreshStart(params)
  \/ \E resp \in Responses : FlowsResolved(resp)
  \/ FlowsRejected
  \/ \E resp \in Responses, processingThrows \in BOOLEAN :
       ComponentsResolved(resp, processingThrows)
  \/ ComponentsRejected

(***************************************************************************)
(* CollectionPage (pages/MainPage/pages/index.tsx): deleting a folder.     *)
(***************************************************************************)
MaxFolders == 2
\* delete requests of one folder id in flight at once
MaxDeletes == 2

Folders == 1..MaxFolders

\* folderToEdit?.id, with 0 for the id of no folder
FolderIds == 0..MaxFolders

FolderPath(id) == "all/folder/" \o ToString(id)

FolderCur ==
  [successData |-> successData, errorData |-> errorData, location |-> location,
   delPending |-> delPending, calls |-> <<>>]

FolderCommit(st) ==
  /\ successData' = st.successData
  /\ errorData' = st.errorData
  /\ location' = st.location
  /\ delPending' = st.delPending
  /\ UNCHANGED <<voiceVars, postVars, refreshVars, nodeVars>>

\* alertStore, useCustomNavigate and useDeleteFolders, by what their names say
setSuccessData(st, title) ==
  [st EXCEPT !.successData = title, !.calls = Append(@, <<"setSuccessData", title>>)]

setErrorData(st, title) ==
  [st EXCEPT !.errorData = title, !.calls = Append(@, <<"setErrorData", title>>)]

navigate(st, to) ==
  [st EXCEPT !.location = to, !.calls = Append(@, <<"navigate", to>>)]

mutate(st, folder_id) ==
  [st EXCEPT !.delPending[folder_id] = @ + 1,
             !.calls = Append(@, <<"mutate", ToString(folder_id)>>)]

\* index.tsx 41-61, up to the callbacks
handleDeleteFolder(st) == mutate(st, folderToEdit)

\* index.tsx 47-52
onSuccess(st) == navigate(setSuccessData(st, "Folder deleted successfully."), "/all")

onErrorNavigates(st) == navigate(setErrorData(st, "Error deleting folder."), "/all")

\* index.tsx 53-58
onError(st) == setErrorData(st, "Error deleting folder.")

\* the delete of folder_id settles: the mutation runs one of the two callbacks
deleteSettled(st, folder_id, ok) ==
  LET done == [st EXCEPT !.delPending[folder_id] = @ - 1]
  IN  IF ok THEN onSuccess(done) ELSE onError(done)

FolderInit ==
  /\ folderToEdit = 0
  /\ openDeleteFolderModal = FALSE
  /\ location = "/"
  /\ delPending = [id \in FolderIds |-> 0]

\* the sidebar's handleDeleteFolder(item), index.tsx 70-73
SelectFolderToDelete(item) ==
  /\ folderToEdit' = item
  /\ openDeleteFolderModal' = TRUE
  /\ UNCHANGED <<location, delPending, alertVars>>
  /\ UNCHANGED <<voiceVars, postVars, refreshVars, nodeVars>>

\* setOpenDeleteFolderModal(false), handed to ModalsComponent, index.tsx 100
CloseDeleteFolderModal ==
  /\ openDeleteFolderModal
  /\ openDeleteFolderModal' = FALSE
  /\ UNCHANGED <<folderToEdit, location, delPending, alertVars>>
  /\ UNCHANGED <<voiceVars, postVars, refreshVars, nodeVars>>

\* the modal confirms: handleDeleteFolder, index.tsx 41-61 and 101
HandleDeleteFolder ==
  /\ openDeleteFolderModal
  /\ delPending[folderToEdit] < MaxDeletes
  /\ FolderCommit(handleDeleteFolder(FolderCur))
  /\ UNCHANGED <<folderToEdit, openDeleteFolderModal>>

DeleteSettled(folder_id, ok) ==
  /\ delPending[folder_id] > 0
  /\ FolderCommit(deleteSettled(FolderCur, folder_id, ok))
  /\ UNCHANGED <<folderToEdit, openDeleteFolderModal>>

\* the sidebar's handleChangeFolder(id), index.tsx 67-69
HandleChangeFolder(id) ==
  /\ FolderCommit([navigate(FolderCur, FolderPath(id)) EXCEPT !.calls = <<>>])
  /\ UNCHANGED <<folderToEdit, openDeleteFolderModal>>

FolderNext ==
  \/ \E item \in Folders : SelectFolderToDelete(item)
  \/ CloseDeleteFolderModal
  \/ HandleDeleteFolder
  \/ \E folder_id \in FolderIds, ok \in BOOLEAN : DeleteSettled(folder_id, ok)
  \/ \E id \in Folders : HandleChangeFolder(id)

(***************************************************************************)
(* NodeStatus (CustomNodes/GenericNode/components/NodeStatus).             *)
(***************************************************************************)
MaxNodes == 2
\* clicks on one node's update button
MaxClicks == 2

Nodes == 1..MaxNodes

NodeProps == [isOutdated : BOOLEAN, isUserEdited : BOOLEAN, showNode : BOOLEAN]

ShowsUpdateButtonWhenOutdated(props) == props.isOutdated

\* part_003 158
ShowsUpdateButton(props) == props.isOutdated /\ ~props.isUserEdited

\* the icons NodeStatus renders, part_003 155-249
NodeStatus(props) ==
  (IF ShowsUpdateButton(props) THEN {"AlertTriangle"} ELSE {})
    \cup {"status"}
    \cup (IF props.showNode THEN {"Play"} ELSE {})

NodeInit ==
  /\ nodeProps = [n \in Nodes |-> [isOutdated |-> FALSE, isUserEdited |-> FALSE,
                                   showNode |-> TRUE]]
  /\ updateButtons = {n \in Nodes : "AlertTriangle" \in NodeStatus(nodeProps[n])}
  /\ updateCalls = [n \in Nodes |-> 0]

\* the parent hands node n new props and NodeStatus renders again
RenderNode(n, props) ==
  /\ props # nodeProps[n]
  /\ nodeProps' = [nodeProps EXCEPT ![n] = props]
  /\ updateButtons' =
       IF "AlertTriangle" \in NodeStatus(props)
         THEN updateButtons \cup {n} ELSE updateButtons \ {n}
  /\ UNCHANGED updateCalls
  /\ UNCHANGED <<voiceVars, postVars, alertVars, refreshVars, folderVars>>

\* a click on the update button of node n: onClick={handleUpdateCode}
ClickUpdate(n) ==
  /\ n \in updateButtons
  /\ updateCalls[n] < MaxClicks
  /\ updateCalls' = [updateCalls EXCEPT ![n] = @ + 1]
  /\ UNCHANGED <<nodeProps, updateButtons>>
  /\ UNCHANGED <<voiceVars, postVars, alertVars, refreshVars, folderVars>>

NodeNext ==
  \/ \E n \in Nodes, props \in NodeProps : RenderNode(n, props)
  \/ \E n \in Nodes : ClickUpdate(n)

(***************************************************************************)
(* usePostFolders (controllers/API/queries/folders/use-post-folders.ts).   *)
(***************************************************************************)
\* a field of AddFolderType that may be absent
Absent == [present |-> FALSE, list |-> <<>>]
OptionalLists == {Absent} \cup {[present |-> TRUE, list |-> l] : l \in {<<>>, <<"x">>}}

\* newFolder.data
AddFolderTypes ==
  [name : {"a", "b"}, description : {"", "d"},
   flows : OptionalLists, components : OptionalLists]

\* field ?? []
OrEmpty(field) == IF field.present THEN field.list ELSE <<>>

\* a payload that leaves the two lists out
PayloadWithoutLists(data) ==
  [name |-> data.name, description |-> data.description,
   flows_list |-> <<>>, components_list |-> <<>>]

\* the payload of addFoldersFn, use-post-folders.ts 20-25
Payload(data) ==
  [name |-> data.name, description |-> data.description,
   flows_list |-> OrEmpty(data.flows), components_list |-> OrEmpty(data.components)]

\* res.data of a successful POST
PostData == {"f1", "f2"}

PostInit ==
  /\ postPc = "idle"
  /\ postArg = [name |-> "a", description |-> "", flows |-> Absent, components |-> Absent]
  /\ postPayload = Payload(postArg)
  /\ postRes = ""
  /\ postResult = ""
  /\ postLog = <<>>

\* addFoldersFn is called: the payload is built and posted,
\* use-post-folders.ts 19-27
PostFolders(data) ==
  /\ postPc \in {"idle", "resolved", "rejected"}
  /\ postPc' = "post"
  /\ postArg' = data
  /\ postPayload' = Payload(data)
  /\ postRes' = ""
  /\ postResult' = ""
  /\ postLog' = <<"api.post">>
  /\ UNCHANGED <<voiceVars, alertVars, refreshVars, folderVars, nodeVars>>

\* the POST resolves: getFoldersApi(true) is called and awaited,
\* use-post-folders.ts 27-28
PostResolved(data) ==
  /\ postPc = "post"
  /\ postPc' = "refresh"
  /\ postRes' = data
  /\ postLog' = Append(postLog, "getFoldersApi(true)")
  /\ UNCHANGED <<postArg, postPayload, postResult>>
  /\ UNCHANGED <<voiceVars, alertVars, refreshVars, folderVars, nodeVars>>

\* the POST rejects: the await throws out of addFoldersFn
PostRejected ==
  /\ postPc = "post"
  /\ postPc' = "rejected"
  /\ postLog' = postLog \o <<"post rejected", "throw">>
  /\ UNCHANGED <<postArg, postPayload, postRes, postResult>>
  /\ UNCHANGED <<voiceVars, alertVars, refreshVars, folderVars, nodeVars>>

\* getFoldersApi(true) resolves: res.data is returned, use-post-folders.ts 28-29
GetFoldersResolved ==
  /\ postPc = "refresh"
  /\ postPc' = "resolved"
  /\ postResult' = postRes
  /\ postLog' = Append(postLog, "return")
  /\ UNCHANGED <<postArg, postPayload, postRes>>
  /\ UNCHANGED <<voiceVars, alertVars, refreshVars, folderVars, nodeVars>>

\* getFoldersApi(true) rejects: the await throws out of addFoldersFn
GetFoldersRejected ==
  /\ postPc = "refresh"
  /\ postPc' = "rejected"
  /\ postLog' = postLog \o <<"refresh rejected", "throw">>
  /\ UNCHANGED <<postArg, postPayload, postRes, postResult>>
  /\ UNCHANGED <<voiceVars, alertVars, refreshVars, folderVars, nodeVars>>

PostNext ==
  \/ \E data \in AddFolderTypes : PostFolders(data)
  \/ \E data \in PostData : PostResolved(data)
  \/ PostRejected
  \/ GetFoldersResolved
  \/ GetFoldersRejected

AlertInit ==
  /\ successData = ""
  /\ errorData = ""

RestInit == AlertInit /\ RefreshInit /\ FolderInit /\ NodeInit /\ PostInit

Init == VoiceInit /\ RestInit

Next == VoiceNext

Spec == Init /\ [][Next]_vars

(***************************************************************************)
(* The message-handler model.  It starts where the lifecycle model is      *)
(* after the button was clicked once, the context runs and the websocket   *)
(* of session 1 is open, with startRecording at any of its three stages;   *)
(* from there the server sends every kind of message in any order.         *)
(***************************************************************************)
RecordingStages == {"gum", "mod", "done"}

MsgStart(stage) ==
  [mounted |-> TRUE, isRecording |-> TRUE, status |-> "", message |-> "",
   showApiKeyModal |-> FALSE, audioContextRef |-> "running", wsRef |-> 1,
   processorRef |-> IF stage = "done" THEN 1 ELSE 0,
   microphoneRef |-> IF stage = "gum" THEN 0 ELSE 1,
   analyserRef |-> IF stage = "gum" THEN 0 ELSE 1,
   portHandler |-> IF stage = "done" THEN {1} ELSE {},
   audioQueueRef |-> <<>>, isPlayingRef |-> FALSE, nSessions |-> 1,
   initPc |-> [s \in Sessions |-> IF s = 1 THEN "done" ELSE "none"],
   wsState |-> [s \in Sessions |-> IF s = 1 THEN "OPEN" ELSE "none"],
   recPc |-> [s \in Sessions |-> IF s = 1 THEN stage ELSE "none"],
   keyPending |-> 0, userStopped |-> FALSE,
   isBuilding |-> FALSE, lockChat |-> FALSE,
   flowBuildStatus |-> [v \in Vertices |-> "TO_BUILD"], edges |-> FlowEdges,
   flowPool |-> [v \in Vertices |-> 0], messages |-> 0, calls |-> <<>>]

MsgInit == (\E stage \in RecordingStages : StartAt(MsgStart(stage))) /\ PlayInit /\ RestInit

MsgNext == \E s \in Sessions, data \in Msgs : WsMessage(s, data)

SpecMsg == MsgInit /\ [][MsgNext]_vars

SpecFlows == Init /\ [][RefreshNext]_vars

SpecFolders == Init /\ [][FolderNext]_vars

SpecNode == Init /\ [][NodeNext]_vars

SpecPost == Init /\ [][PostNext]_vars

(***************************************************************************)
(* The recording lifecycle while the server reports a build: the lifecycle *)
(* actions and the "start" and "end" build-progress messages.              *)
(***************************************************************************)
BuildBoundaryMsgs == {BuildMsg(e, "", TRUE) : e \in {"start", "end"}}

BuildNext ==
  \/ VoiceNext
  \/ \E s \in Sessions, data \in BuildBoundaryMsgs : WsMessage(s, data)

\* The browser delivers the events it owes and settles the promises it was
\* asked for; neither the user nor the server is obliged to do anything.
BrowserFairness ==
  /\ WF_vars(\E s \in Sessions : WsClose(s))
  /\ WF_vars(\E s \in Sessions : ResumeResolved(s) \/ ResumeRejected(s))
  /\ WF_vars(\E s \in Sessions : GumResolved(s) \/ GumRejected(s))
  /\ WF_vars(\E s \in Sessions : AddModuleResolved(s) \/ AddModuleRejected(s))

SpecBuild == Init /\ [][BuildNext]_vars /\ BrowserFairness

(***************************************************************************)
(* Playback: audio deltas arrive on an open socket while recording is      *)
(* started and stopped, and the stream processors play what they are       *)
(* posted.  streamProcessor (the worklet) is taken to report "done" once   *)
(* for every chunk it was posted, when it has played it.                   *)
(***************************************************************************)
\* decoded buffers waiting in audioQueueRef in the playback model
MaxBacklog == 2

PostsOf(st) == SelectSeq(st.calls, LAMBDA c : c.fn = "postMessage")

\* the chunk a logged postMessage call carried
ChunkOf(call) == CHOOSE k \in 1..MaxChunks : ToString(k) = call.arg

\* the component ends a handler in state st; what the handler posted is now
\* with the processor it was posted to
PlayCommit(st, pending) ==
  LET playing == IF PostsOf(st) = <<>>
                   THEN pending
                   ELSE [pending EXCEPT
                           ![st.processorRef] = Append(@, ChunkOf(PostsOf(st)[1]))]
  IN  /\ CommitState(st)
      /\ posted' = posted \o [i \in 1..Len(PostsOf(st)) |-> ChunkOf(PostsOf(st)[i])]
      /\ outstanding' = playing
      /\ portHandler' = Listening(st, playing)

AudioDeltaMsg(delta) == [NoMsg EXCEPT !.type = "response.audio.delta", !.delta = delta]

\* the server sends the next audio chunk
ChunkArrives(s) ==
  /\ wsState[s] = "OPEN"
  /\ Idle
  /\ arrived < MaxChunks
  /\ \E postFails \in BOOLEAN :
       LET st == handleWebSocketMessage(Cur, AudioDeltaMsg(ChunkDelta(arrived + 1)),
                                        postFails)
       IN  /\ Len(st.audioQueueRef) <= MaxBacklog
           /\ PlayCommit(st, outstanding)
           /\ arrived' = arrived + 1

\* the server sends a delta that does not decode
BadDeltaArrives(s) ==
  /\ wsState[s] = "OPEN"
  /\ Idle
  /\ PlayCommit(handleWebSocketMessage(Cur, AudioDeltaMsg("!"), FALSE), outstanding)
  /\ UNCHANGED arrived

\* processor p has played the chunk it was posted first and reports "done"
ProcessorDone(p) ==
  /\ outstanding[p] # <<>>
  /\ p \in portHandler
  /\ Idle
  /\ \E postFails \in BOOLEAN :
       PlayCommit(processorDone(Cur, postFails),
                  [outstanding EXCEPT ![p] = Tail(@)])
  /\ UNCHANGED arrived

AudioNext ==
  \/ \E s \in Sessions : ChunkArrives(s)
  \/ \E s \in Sessions : BadDeltaArrives(s)
  \/ \E p \in Sessions : ProcessorDone(p)
  \/ ToggleRecording(MaxSessions)
  \/ \E s \in Sessions : WsOpen(s)
  \/ \E s \in Sessions : GumResolved(s)
  \/ \E s \in Sessions : AddModuleResolved(s)
  \/ \E s \in Sessions : WsClose(s)

\* every processor plays what it was posted and says so
ProcessorFairness == \A p \in Sessions : WF_vars(ProcessorDone(p))

SpecAudio == MsgInit /\ [][AudioNext]_vars /\ BrowserFairness /\ ProcessorFairness

(***************************************************************************)
(* Claims about handleWebSocketMessage, checked under SpecMsg.             *)
(***************************************************************************)
VertexEvents == {"start_vertex", "end_vertex", "error"}

ReportedStatus(event) ==
  IF event = "start_vertex" THEN "BUILDING"
  ELSE IF event = "end_vertex" THEN "BUILT" ELSE "ERROR"

CallsOf(st, fn) == SelectSeq(st.calls, LAMBDA c : c.fn = fn)

\* C1: a start_vertex / end_vertex / error build-progress event for vertex v
\* calls updateBuildStatus exactly once, with the list [v] and the status
\* BUILDING / BUILT / ERROR, and leaves every other vertex's build status as
\* it was: in every state a message can arrive in, the handler run on such an
\* event ends that way.
C1_VertexEventUpdatesItsVertexOnly ==
  \A data \in BuildMsgs :
    data.event \in VertexEvents =>
      LET st == handleWebSocketMessage(Cur, data, FALSE)
      IN  /\ CallsOf(st, "updateBuildStatus")
               = <<[fn |-> "updateBuildStatus", ids |-> <<data.vertex_id>>,
                    arg |-> ReportedStatus(data.event)]>>
          /\ st.flowBuildStatus[data.vertex_id] = ReportedStatus(data.event)
          /\ \A u \in Vertices \ {data.vertex_id} :
               st.flowBuildStatus[u] = flowBuildStatus[u]

\* one vertex was reported built while the other is still building
C1_Witness ==
  /\ flowBuildStatus["v1"] = "BUILT"
  /\ flowBuildStatus["v2"] = "BUILDING"
  /\ flowPool["v1"] = 1

HandledTypes ==
  {"response.content_part.added", "response.audio.delta", "flow.build.progress", "error"}

Unhandled(data) ==
  \/ data.type \notin HandledTypes
  \/ data.type = "flow.build.progress" /\ data.event \notin BuildEvents

\* C2: a message whose type the switch does not list, or a build-progress
\* message whose event the inner switch does not list, changes nothing: no
\* store function is called and the flow store, the messages store, the audio
\* queue, isPlaying, status, message text and the modal flag stay as they are.
C2_UnhandledMessagesChangeNothing ==
  \A data \in Msgs, postFails \in BOOLEAN :
    Unhandled(data) =>
      LET st == handleWebSocketMessage(Cur, data, postFails)
      IN  /\ st.calls = <<>>
          /\ <<st.isBuilding, st.lockChat, st.flowBuildStatus, st.edges, st.flowPool>>
               = <<isBuilding, lockChat, flowBuildStatus, edges, flowPool>>
          /\ st.messages = messages
          /\ st.audioQueueRef = audioQueueRef
          /\ st.isPlayingRef = isPlayingRef
          /\ st.status = status
          /\ st.message = message
          /\ st.showApiKeyModal = showApiKeyModal

\* an open socket while every part the claim names holds something
C2_Witness ==
  /\ \E s \in Sessions : wsState[s] = "OPEN"
  /\ isBuilding /\ flowBuildStatus["v1"] = "BUILDING" /\ edges[2].animated
  /\ messages = 1
  /\ Len(audioQueueRef) = 1 /\ isPlayingRef
  /\ status = "Error: e" /\ message = "a" /\ showApiKeyModal

\* C3: "start" sets isBuilding and lockChat to true, "end" sets both to false
\* and calls revertBuiltStatusFromBuilding and clearEdgesRunningByNodes, no
\* other build-progress event touches either flag; so lockChat = isBuilding
\* holds after any sequence of build-progress events.
C3_LockChatFollowsIsBuilding ==
  /\ lockChat = isBuilding
  /\ \A data \in BuildMsgs :
       LET st == handleWebSocketMessage(Cur, data, FALSE)
       IN  /\ data.event = "start" => st.isBuilding /\ st.lockChat
           /\ data.event = "end" =>
                /\ ~st.isBuilding /\ ~st.lockChat
                /\ Len(CallsOf(st, "revertBuiltStatusFromBuilding")) = 1
                /\ Len(CallsOf(st, "clearEdgesRunningByNodes")) = 1
           /\ data.event \notin {"start", "end"} =>
                /\ st.isBuilding = isBuilding /\ st.lockChat = lockChat
                /\ CallsOf(st, "setIsBuilding") = <<>>
                /\ CallsOf(st, "setLockChat") = <<>>

\* a build that started and ended: the vertex it left building was reverted
C3_Witness ==
  /\ ~isBuilding /\ ~lockChat
  /\ flowBuildStatus["v1"] = "BUILT" /\ flowPool["v1"] = 0
  /\ flowBuildStatus["v2"] = "ERROR"

\* C4: a message of type "error" sets the status to "Error: " followed by
\* data.error and opens the API-key modal exactly when data.code is
\* "api_key_missing"; it calls no store function and leaves the websockets,
\* the audio nodes, isRecording, the audio queue and the stores as they are.
C4_ServerErrorOnlyReports ==
  \A data \in ErrorMsgs :
    LET st == handleWebSocketMessage(Cur, data, FALSE)
    IN  /\ st.status = "Error: " \o data.error
        /\ st.showApiKeyModal = (showApiKeyModal \/ data.code = "api_key_missing")
        /\ st = [Cur EXCEPT !.status = st.status, !.showApiKeyModal = st.showApiKeyModal]

\* an error without the api_key_missing code arrived during a build: the
\* modal stayed closed
C4_Witness ==
  /\ status = "Error: e" /\ ~showApiKeyModal
  /\ isBuilding /\ flowBuildStatus["v2"] = "BUILDING"
  /\ isRecording /\ wsRef = 1 /\ wsState[1] = "OPEN"

(***************************************************************************)
(* Claims about the recording lifecycle, checked under Spec.               *)
(***************************************************************************)
SocketsCreated == {s \in Sessions : wsState[s] # "none"}

AudioNodes == <<microphoneRef, analyserRef, processorRef>>

\* the step delivers the error event of session s's socket
ErrorEventOf(s) == wsState[s] # "FAILING" /\ wsState'[s] = "FAILING"

\* the step delivers the close event of session s's socket
CloseEventOf(s) == wsState[s] # "CLOSED" /\ wsState'[s] = "CLOSED"

\* C7: there is no automatic retry.  initializeAudio is only invoked by
\* toggleRecording while not recording or by the onSuccess of an API-key
\* submission made while not recording (the isRecording its closure holds); a
\* WebSocket is only created by an initializeAudio invocation, at most one per
\* invocation; the error event only
\* sets the status "Connection error" and the close event only runs
\* stopRecording: neither invokes initializeAudio nor creates a socket.
C7_NoAutomaticRetry ==
  [][/\ nSessions' # nSessions =>
          /\ nSessions' = nSessions + 1
          /\ mounted
          /\ \/ ~isRecording /\ isRecording' /\ UNCHANGED keyPending
             \/ keyPending' = keyPending - 1
     /\ \A s \in Sessions :
          /\ (s \in SocketsCreated' \ SocketsCreated) =>
               /\ wsState'[s] = "CONNECTING" /\ wsRef' = s
               /\ initPc'[s] = "done"
               /\ \/ initPc[s] = "resume" /\ UNCHANGED nSessions
                  \/ initPc[s] = "none" /\ nSessions' = s
          /\ ErrorEventOf(s) =>
               /\ UNCHANGED <<nSessions, initPc, recPc, wsRef, refVars, isRecording>>
               /\ SocketsCreated' = SocketsCreated
               /\ mounted => status' = "Connection error"
          /\ CloseEventOf(s) =>
               /\ UNCHANGED <<nSessions, initPc, recPc, status>>
               /\ SocketsCreated' = SocketsCreated
               /\ wsRef' = 0 /\ ~isRecording']_vars

\* the first connection failed and was closed, and nothing reconnected
C7_Witness ==
  /\ nSessions = 1 /\ wsState[1] = "CLOSED" /\ wsState[2] = "none"
  /\ status = "Connection error" /\ ~isRecording /\ wsRef = 0 /\ mounted

\* C9: the close event of a socket that a newer socket has already replaced in
\* wsRef neither closes the newer socket nor clears wsRef or the audio nodes.
C9_CloseEventSparesNewerSession ==
  [][\A s \in Sessions :
       (CloseEventOf(s) /\ wsRef # 0 /\ wsRef > s) =>
          /\ wsRef' = wsRef
          /\ wsState'[wsRef] = wsState[wsRef]
          /\ AudioNodes' = AudioNodes]_vars

\* C10: once the user has toggled recording off, and until the user toggles it
\* on or submits an API key, no websocket is created, no microphone, analyser
\* or processor node is set and isRecording stays false.
C10_NothingStartsAfterToggleOff ==
  [][(userStopped /\ userStopped') =>
       /\ SocketsCreated' = SocketsCreated
       /\ AudioNodes' = <<0, 0, 0>>
       /\ ~isRecording']_vars

(***************************************************************************)
(* Claims about the REST hooks and pages, checked under SpecFlows,         *)
(* SpecFolders and SpecNode.                                               *)
(***************************************************************************)
FailureReasons ==
  {"flows request failed", "components request failed", "processing failed"}

InLog(x) == \E i \in 1..Len(rfLog) : rfLog[i] = x

\* C5: when the flows request, the saved-components request or the processing
\* of the result fails in useGetRefreshFlows, the error alert "Could not load
\* flows from database" is set, the error is rethrown, setFlows is not called
\* and the flows store keeps the content it had before the call.
C5_RefreshFailureAlertsAndRethrows ==
  (\E why \in FailureReasons : InLog(why)) =>
     /\ rfPc = "failed"
     /\ InLog("setErrorData")
     /\ errorData = "Could not load flows from database"
     /\ rfLog[Len(rfLog)] = "throw"
     /\ ~InLog("setFlows")
     /\ flows = rfFlowsBefore

C5_Witness ==
  /\ rfPc = "failed"
  /\ InLog("processing failed")
  /\ Len(rfRequests) = 2
  /\ rfDbDataFlows.kind = "paginated"
  /\ rfDbDataFlows.items # flows

\* C6: handleDeleteFolder issues the delete for folderToEdit's id and nothing
\* else; a delete that succeeds sets the success alert "Folder deleted
\* successfully." and navigates to "/all"; a delete that fails sets the error
\* alert "Error deleting folder." and does not navigate; a settled delete runs
\* exactly one of the two.
C6_DeleteFolderOutcomes ==
  /\ LET issued == handleDeleteFolder(FolderCur)
     IN  /\ issued.calls = <<<<"mutate", ToString(folderToEdit)>>>>
         /\ issued.delPending =
              [delPending EXCEPT ![folderToEdit] = delPending[folderToEdit] + 1]
         /\ issued.successData = successData
         /\ issued.errorData = errorData
         /\ issued.location = location
  /\ \A folder_id \in FolderIds :
       delPending[folder_id] > 0 =>
         LET ok == deleteSettled(FolderCur, folder_id, TRUE)
             failed == deleteSettled(FolderCur, folder_id, FALSE)
             settled == [delPending EXCEPT ![folder_id] = delPending[folder_id] - 1]
         IN  /\ ok.calls = <<<<"setSuccessData", "Folder deleted successfully.">>,
                             <<"navigate", "/all">>>>
             /\ ok.successData = "Folder deleted successfully."
             /\ ok.location = "/all"
             /\ ok.errorData = errorData
             /\ ok.delPending = settled
             /\ failed.calls = <<<<"setErrorData", "Error deleting folder.">>>>
             /\ failed.errorData = "Error deleting folder."
             /\ failed.location = location
             /\ failed.successData = successData
             /\ failed.delPending = settled

C6_Witness ==
  /\ folderToEdit # 0
  /\ delPending[folderToEdit] > 0
  /\ successData = "Folder deleted successfully."
  /\ errorData = "Error deleting folder."
  /\ location = FolderPath(folderToEdit)

\* C8: a node shows the update (AlertTriangle) button exactly when it is
\* outdated and not user-edited, so the number of update buttons is the number
\* of outdated, non-user-edited nodes; a click on the button calls
\* handleUpdateCode once, and nothing else calls it.
C8_UpdateButtonIffOutdatedNotEdited ==
  /\ [](/\ updateButtons =
             {n \in Nodes : nodeProps[n].isOutdated /\ ~nodeProps[n].isUserEdited}
        /\ Cardinality(updateButtons) =
             Cardinality({n \in Nodes : nodeProps[n].isOutdated
                                         /\ ~nodeProps[n].isUserEdited}))
  /\ [][\A n \in Nodes :
          updateCalls'[n] # updateCalls[n] =>
             /\ n \in updateButtons
             /\ updateCalls'[n] = updateCalls[n] + 1]_vars

C8_Witness ==
  /\ Cardinality(updateButtons) = 1
  /\ \E n \in Nodes : nodeProps[n].isOutdated /\ nodeProps[n].isUserEdited
  /\ \E n \in updateButtons : updateCalls[n] > 0

(***************************************************************************)
(* Claims about a build interrupted by the end of the connection, checked  *)
(* under SpecBuild.                                                        *)
(***************************************************************************)
\* C11: when no websocket is referenced any more (the socket closed or
\* recording was stopped) while a build has isBuilding or lockChat set, both
\* are eventually false.
C11_InterruptedBuildUnlocks ==
  ((isBuilding \/ lockChat) /\ wsRef = 0) ~> (~isBuilding /\ ~lockChat)

(***************************************************************************)
(* Claims about playback, checked under SpecAudio.  Chunks are numbered in *)
(* the order they arrive.                                                  *)
(***************************************************************************)
NOutstanding ==
  Cardinality({pi \in Sessions \X (1..MaxChunks) : pi[2] <= Len(outstanding[pi[1]])})

\* the step delivers a chunk
ArrivalStep == arrived' = arrived + 1

\* the step delivers the "done" of a processor
DoneStep ==
  /\ arrived' = arrived
  /\ \E p \in Sessions :
       /\ outstanding[p] # <<>>
       /\ outstanding'[p] = <<>> \/ Head(outstanding'[p]) # Head(outstanding[p])

\* C12: chunks are posted for playback in the order they arrived, at most one
\* is with a processor at a time; an arriving chunk is posted at once only
\* when isPlaying is false and otherwise waits at the end of the queue; a
\* waiting chunk is only posted by a "done" report; a "done" report that finds
\* the queue empty sets isPlaying to false.
C12_PlaybackIsFifoOneAtATime ==
  /\ [](/\ \A i, j \in 1..Len(posted) : i < j => posted[i] < posted[j]
        /\ NOutstanding <= 1)
  /\ [][/\ posted' # posted =>
             /\ Len(posted') = Len(posted) + 1
             /\ \/ ArrivalStep /\ ~isPlayingRef
                \/ DoneStep /\ audioQueueRef # <<>>
                     /\ posted'[Len(posted')] = Head(audioQueueRef)
        /\ (ArrivalStep /\ isPlayingRef) =>
             /\ posted' = posted
             /\ audioQueueRef' = Append(audioQueueRef, arrived + 1)
        /\ (DoneStep /\ audioQueueRef = <<>>) =>
             /\ ~isPlayingRef'
             /\ posted' = posted]_vars

\* one chunk is with the processor while two wait in the queue
C12_Witness ==
  /\ posted = <<1>> /\ NOutstanding = 1 /\ isPlayingRef
  /\ audioQueueRef = <<2, 3>>

InQueue(k) == \E i \in 1..Len(audioQueueRef) : audioQueueRef[i] = k

WasPosted(k) == \E i \in 1..Len(posted) : posted[i] = k

\* C13: every chunk that is in the queue while a processor exists is
\* eventually posted for playback.
C13_NoChunkStranded ==
  \A k \in 1..MaxChunks : (InQueue(k) /\ processorRef # 0) ~> WasPosted(k)

(***************************************************************************)
(* Further claims about the recording lifecycle, checked under Spec.       *)
(***************************************************************************)
\* C14: whenever the referenced stream processor hands over microphone input,
\* the input callback sends input_audio_buffer.append only on a socket whose
\* readyState is OPEN.
C14_SendsOnlyOnOpenSocket ==
  (processorRef \in portHandler /\ Idle) =>
    LET st == processorInput(Cur)
    IN  \A i \in 1..Len(st.calls) :
          st.calls[i].fn = "send" => st.calls[i].arg = "OPEN"

NodeCalls(st) ==
  [i \in 1..Len(st.calls) |-> <<st.calls[i].fn, st.calls[i].ids[1]>>]

\* what stopRecording has to call in the current state, in its order
TeardownCalls ==
  (IF microphoneRef # 0 THEN <<<<"disconnect", "microphone">>>> ELSE <<>>)
    \o (IF processorRef # 0 THEN <<<<"disconnect", "processor">>>> ELSE <<>>)
    \o (IF analyserRef # 0 THEN <<<<"disconnect", "analyser">>>> ELSE <<>>)
    \o (IF wsRef # 0 THEN <<<<"close", "websocket">>>> ELSE <<>>)

\* C15: stopRecording disconnects exactly the nodes that are referenced and
\* closes the socket that is referenced, clears the four references and sets
\* isRecording to false; it leaves the AudioContext, the audio queue and
\* isPlaying alone; run again it calls nothing and changes nothing; and the
\* close event of any socket runs exactly this teardown.
C15_StopRecordingTearsDownOnce ==
  LET st == stopRecording(Cur)
      again == stopRecording([st EXCEPT !.calls = <<>>])
  IN  /\ NodeCalls(st) = TeardownCalls
      /\ st.microphoneRef = 0 /\ st.processorRef = 0 /\ st.analyserRef = 0
      /\ st.wsRef = 0
      /\ \A s \in Sessions :
           st.wsState[s] = IF s = wsRef THEN CloseSocket(wsState[s]) ELSE wsState[s]
      /\ mounted => ~st.isRecording
      /\ st.audioContextRef = audioContextRef
      /\ st.audioQueueRef = audioQueueRef
      /\ st.isPlayingRef = isPlayingRef
      /\ again = [st EXCEPT !.calls = <<>>]
      /\ \A s \in Sessions :
           LET closed == [Cur EXCEPT !.wsState[s] = "CLOSED"]
           IN  onclose(closed) = stopRecording(closed)

\* recording had fully started, the user stopped it and the close event of the
\* socket has run stopRecording a second time
C15_Witness ==
  /\ userStopped /\ wsState[1] = "CLOSED" /\ recPc[1] = "done" /\ status = ""
  /\ wsRef = 0 /\ processorRef = 0 /\ microphoneRef = 0 /\ analyserRef = 0
  /\ ~isRecording /\ audioContextRef = "running" /\ mounted

\* C16: once the component is unmounted no websocket and no audio node is
\* referenced and the AudioContext is cleared, and from then on no websocket
\* is created.
C16_NothingCreatedAfterUnmount ==
  [][~mounted' =>
       /\ wsRef' = 0
       /\ AudioNodes' = <<0, 0, 0>>
       /\ audioContextRef' = "null"
       /\ ~mounted => SocketsCreated' = SocketsCreated]_vars

NoContext == {"null", "closed"}

\* C17: while the component is mounted, an initializeAudio call makes a new
\* AudioContext exactly when none is held or the held one is closed, awaits
\* resume exactly when the context is suspended, and reaches startConversation
\* only with a context; when the creation or the resume throws, the status is
\* "Error: Failed to initialize audio" and no websocket is created.
C17_InitializeAudioContextDiscipline ==
  mounted =>
    /\ nSessions < MaxSessions =>
         \A created \in CtxOutcomes, wsThrows \in BOOLEAN :
           LET s == nSessions + 1
               st == initializeAudio(Cur, s, created, wsThrows)
           IN  /\ audioContextRef \notin NoContext => st.audioContextRef = audioContextRef
               /\ (audioContextRef \in NoContext /\ created # "throws") =>
                    st.audioContextRef = created
               /\ st.initPc[s] = "resume" <=> st.audioContextRef = "suspended"
               /\ st.wsState[s] # "none" => st.audioContextRef = "running"
               /\ (audioContextRef \in NoContext /\ created = "throws") =>
                    /\ st.status = "Error: Failed to initialize audio"
                    /\ st.audioContextRef = "null"
                    /\ st.wsState = wsState /\ st.wsRef = wsRef
    /\ \A s \in Sessions :
         initPc[s] = "resume" =>
           /\ audioContextRef # "null"
           /\ LET failed == initializeAudioFailed(Cur, s)
              IN  /\ failed.status = "Error: Failed to initialize audio"
                  /\ failed.wsState = wsState /\ failed.wsRef = wsRef
           /\ \A wsThrows \in BOOLEAN :
                initializeAudioResumed(Cur, s, wsThrows).audioContextRef = "running"

\* the first call failed to create a context; the second created one and
\* went on to open a socket
C17_Witness ==
  /\ nSessions = 2 /\ wsState[1] = "none" /\ initPc[1] = "done"
  /\ status = "Error: Failed to initialize audio"
  /\ audioContextRef = "running" /\ wsState[2] = "CONNECTING" /\ mounted

\* C18: a start_vertex event for vertex v calls setEdges once, with the
\* same edges in the same order; the edges whose target handle is v are
\* animated with class "running" and every other edge is exactly as it was.
C18_StartVertexMarksIncomingEdges ==
  \A data \in BuildMsgs :
    data.event = "start_vertex" =>
      LET st == handleWebSocketMessage(Cur, data, FALSE)
      IN  /\ Len(CallsOf(st, "setEdges")) = 1
          /\ Len(st.edges) = Len(edges)
          /\ \A i \in 1..Len(edges) :
               /\ st.edges[i].source = edges[i].source
               /\ st.edges[i].target = edges[i].target
               /\ IF edges[i].target = data.vertex_id
                    THEN st.edges[i].animated /\ st.edges[i].className = "running"
                    ELSE st.edges[i] = edges[i]

\* vertex v2 has started: the edge into v2 runs, the edge out of it does not
C18_Witness ==
  /\ flowBuildStatus["v2"] = "BUILDING"
  /\ edges[1].target = "v2" /\ edges[1].animated /\ edges[1].className = "running"
  /\ edges[2].target = "v1" /\ ~edges[2].animated /\ edges[2].className = ""

ComponentsQuery == <<<<"components_only", "true">>, <<"get_all", "true">>>>

Before(x, y) ==
  \A i, j \in 1..Len(rfLog) : (rfLog[i] = x /\ rfLog[j] = y) => i < j

\* C19: in useGetRefreshFlows the flows request is the first request; the
\* saved-components request (components_only, get_all) is the second and is
\* not issued while the flows request is pending; the types store is updated
\* before setFlows is called; setFlows is given the response when it is an
\* array and its items when it is paginated.
C19_RefreshRequestsAreOrdered ==
  /\ rfPc = "idle" <=> rfRequests = <<>>
  /\ rfPc = "flows" => Len(rfRequests) = 1
  /\ rfPc = "components" => Len(rfRequests) = 2
  /\ Len(rfRequests) <= 2
  /\ Len(rfRequests) >= 1 =>
       /\ rfRequests[1] \in {addQueryParams(params) : params \in ParamsGiven}
       /\ rfRequests[1] # ComponentsQuery
  /\ Len(rfRequests) = 2 =>
       /\ rfRequests[2] = ComponentsQuery
       /\ rfPc \in {"components", "done", "failed"}
  /\ Before("typesStore.setState", "setFlows")
  /\ InLog("setFlows") =>
       /\ rfPc = "done"
       /\ rfDbDataFlows.kind \in {"array", "paginated"}
       /\ rfDbDataFlows.kind = "array" => flows = rfDbDataFlows.array
       /\ rfDbDataFlows.kind = "paginated" => flows = rfDbDataFlows.items

\* a refresh that got an array of two flows and saved components has finished
C19_Witness ==
  /\ rfPc = "done"
  /\ rfLog = <<"typesStore.setState", "setFlows", "return">>
  /\ rfRequests = <<<<>>, ComponentsQuery>>
  /\ rfDbDataFlows.kind = "array"
  /\ flows = <<1, 2>>
  /\ savedComponents = <<1>>

InPostLog(x) == \E i \in 1..Len(postLog) : postLog[i] = x

\* C20: addFoldersFn posts a payload of name, description, flows_list and
\* components_list, the lists empty when the folder has none; getFoldersApi(true)
\* is called only after the POST has succeeded and the mutation resolves with
\* the POST's data only after that refresh; when the POST rejects there is no
\* refresh and the mutation rejects.
C20_PostFoldersRefreshesBetweenPostAndReturn ==
  /\ postPc = "idle" <=> postLog = <<>>
  /\ postPc # "idle" =>
       /\ postLog[1] = "api.post"
       /\ postPayload =
            [name |-> postArg.name, description |-> postArg.description,
             flows_list |-> IF postArg.flows.present THEN postArg.flows.list ELSE <<>>,
             components_list |->
               IF postArg.components.present THEN postArg.components.list ELSE <<>>]
  /\ postPc = "post" => postLog = <<"api.post">> /\ postRes = ""
  /\ InPostLog("getFoldersApi(true)") =>
       /\ postLog[2] = "getFoldersApi(true)"
       /\ postRes \in PostData
       /\ ~InPostLog("post rejected")
  /\ postPc = "refresh" => postResult = ""
  /\ postPc = "resolved" <=> postResult # ""
  /\ postPc = "resolved" =>
       /\ postLog = <<"api.post", "getFoldersApi(true)", "return">>
       /\ postResult = postRes
  /\ InPostLog("post rejected") =>
       /\ postLog = <<"api.post", "post rejected", "throw">>
       /\ postPc = "rejected"
       /\ postResult = ""

\* a folder with flows and no components was posted, the list refreshed and
\* the mutation resolved with the POST's data
C20_Witness ==
  /\ postPc = "resolved"
  /\ postArg.flows = [present |-> TRUE, list |-> <<"x">>]
  /\ postArg.components = Absent
  /\ postPayload.flows_list = <<"x">> /\ postPayload.components_list = <<>>
  /\ postResult = "f2"

====
